---- MODULE Spec2Model ----
(***************************************************************************)
(* A model of tensorflow_federated/python/tensorflow_libs/tensor_utils.py. *)
(*                                                                         *)
(* Every function of the file is an operator that computes what the code   *)
(* computes, statement by statement.  The arguments of a call are drawn    *)
(* from a bounded set into `call`; the call is one action, which records   *)
(* the outcome (the returned value or the raised exception) in `ret`.      *)
(* metrics_sum is the one function with state that outlives the call: the  *)
(* graph's variable store, its LOCAL_VARIABLES collection and the values   *)
(* of the variables in the session.                                        *)
(***************************************************************************)
EXTENDS Integers, Sequences, FiniteSets, TLC

VARIABLES
    call,             \* the last call: the function and its arguments
    ret,              \* its outcome
    var_store,        \* tf variable store of the graph: the names of its variables
    local_variables,  \* the graph collection tf.GraphKeys.LOCAL_VARIABLES
    scope_count,      \* variable scope store: times each scope name was opened
    session,          \* session state: variable name -> its value, if initialised
    handles,          \* the metrics_sum calls made and what each returned
    applied           \* history: per variable, the batches added since initialisation

vars == <<call, ret, var_store, local_variables, scope_count, session, handles, applied>>

metricsVars == <<var_store, local_variables, scope_count, session, handles, applied>>

(***************************************************************************)
(* Python values.                                                          *)
(***************************************************************************)

\* An optional int: None, or an int n.
PyNone == [isNone |-> TRUE, n |-> 0]

PyInt(k) == [isNone |-> FALSE, n |-> k]

\* The outcome of a call: a returned value, or a raised exception.
Return(v) == [raised |-> "None", msg |-> "", value |-> v]

Raise(exc, m, v) == [raised |-> exc, msg |-> m, value |-> v]

\* The call has not run yet.
Pending == [raised |-> "pending", msg |-> "", value |-> FALSE]

Done == ret.raised # "pending"

Min(a, b) == IF a < b THEN a ELSE b

\* All sequences over S of length at most n.
SeqsUpTo(S, n) == UNION {[1..k -> S] : k \in 0..n}

(***************************************************************************)
(* Shapes: tf.Dimension, tf.TensorShape.                                   *)
(***************************************************************************)

\* Largest known dimension size drawn; largest rank drawn.
MaxDim == 2

MaxRank == 2

\* tf.Dimension(v): v is None (unknown) or an int.
Dimension(v) == [obj |-> "Dimension", value |-> v]

\* The Python object None passed where a Dimension is expected.
NoneObj == [obj |-> "None", value |-> PyNone]

Dimensions == {Dimension(PyNone)} \cup {Dimension(PyInt(k)) : k \in 0..MaxDim}

\* tf.TensorShape: dims is None (unknown rank) or a list of Dimension objects.
TensorShape(known, ds) == [ranked |-> known, dims |-> ds]

TensorShapes ==
    {TensorShape(FALSE, <<>>)} \cup {TensorShape(TRUE, ds) : ds \in SeqsUpTo(Dimensions, MaxRank)}

\* TensorShape.ndims: None for unknown rank.
ndims(x) == IF x.ranked THEN PyInt(Len(x.dims)) ELSE PyNone

same_dimension(x, y) ==
    IF x.obj = "None"
    THEN y.obj = "None"
    ELSE y.obj # "None" /\ x.value = y.value

\* A slip: the ranks are not compared.
same_shape_no_rank_check(x, y) ==
    IF ~x.ranked
    THEN ~y.ranked
    ELSE y.ranked /\ \A i \in 1..Min(Len(x.dims), Len(y.dims)) :
                        same_dimension(x.dims[i], y.dims[i])

\* zip(x.dims, y.dims) stops at the shorter list.
same_shape(x, y) ==
    IF ndims(x) # ndims(y)
    THEN FALSE
    ELSE IF ~x.ranked
         THEN ~y.ranked
         ELSE y.ranked /\ \A i \in 1..Min(Len(x.dims), Len(y.dims)) :
                             same_dimension(x.dims[i], y.dims[i])

\* Dimension.__eq__(other): None when either side is unknown.
DimensionEq(d, k) ==
    IF d.value.isNone THEN "None" ELSE IF d.value.n = k THEN "True" ELSE "False"

Truthy(b) == b = "True"

\* Values handed to is_scalar: tensors (with a static shape) and other objects.
TensorKinds == {"Tensor", "Variable"}

OtherKinds == {"int", "list"}

is_tensor(t) == t.kind \in TensorKinds

hasattr_get_shape(t) == t.kind \in TensorKinds

is_scalar(tensor) ==
    IF ~is_tensor(tensor)
    THEN Raise("TypeError", "Expected a tensor", FALSE)
    ELSE IF ~hasattr_get_shape(tensor)
         THEN Return(FALSE)
         ELSE IF ~tensor.shape.ranked
              THEN \* TensorShape.__iter__ on a shape of unknown rank
                   Raise("ValueError", "Cannot iterate over a shape with unknown rank", FALSE)
              ELSE Return(\A i \in 1..Len(tensor.shape.dims) :
                              Truthy(DimensionEq(tensor.shape.dims[i], 1)))

ScalarInputs ==
    {[kind |-> k, shape |-> s] : k \in TensorKinds, s \in TensorShapes}
    \cup {[kind |-> k, shape |-> TensorShape(FALSE, <<>>)] : k \in OtherKinds}

\* The arguments of a direct same_dimension call.  A caller writes an unknown
\* dimension in one of two ways, None or Dimension(None), and a known one as
\* Dimension(k).
UnknownAs == {"None", "Dimension"}

AbstractDims == {PyNone} \cup {PyInt(k) : k \in 0..MaxDim}

Encode(a, conv) == IF a.isNone /\ conv = "None" THEN NoneObj ELSE Dimension(a)

\* The graph of a program that never calls metrics_sum.
MetricsIdle ==
    /\ var_store = {}
    /\ local_variables = <<>>
    /\ scope_count = <<>>
    /\ session = <<>>
    /\ handles = <<>>
    /\ applied = <<>>

\* The calls of the shape functions that the model makes.
ShapeCalls ==
    {[fn |-> "same_dimension", a |-> a, b |-> b, x |-> Encode(a, conv), y |-> Encode(b, conv)] :
        a \in AbstractDims, b \in AbstractDims, conv \in UnknownAs}
    \cup {[fn |-> "same_shape", x |-> x, y |-> y] : x \in TensorShapes, y \in TensorShapes}
    \cup {[fn |-> "is_scalar", tensor |-> t] : t \in ScalarInputs}

InitShape ==
    /\ call \in ShapeCalls
    /\ ret = Pending
    /\ MetricsIdle

CallSameDimension ==
    /\ call.fn = "same_dimension"
    /\ ~Done
    /\ ret' = Return(same_dimension(call.x, call.y))
    /\ UNCHANGED <<call, metricsVars>>

CallSameShape ==
    /\ call.fn = "same_shape"
    /\ ~Done
    /\ ret' = Return(same_shape(call.x, call.y))
    /\ UNCHANGED <<call, metricsVars>>

CallIsScalar ==
    /\ call.fn = "is_scalar"
    /\ ~Done
    /\ ret' = is_scalar(call.tensor)
    /\ UNCHANGED <<call, metricsVars>>

NextShape == CallSameDimension \/ CallSameShape \/ CallIsScalar

SpecShape == InitShape /\ [][NextShape]_vars

\* Two dimension sizes, each None (unknown) or an int, are the same.
DimSame(a, b) == (a.isNone /\ b.isNone) \/ (~a.isNone /\ ~b.isNone /\ a.n = b.n)

SameRank(x, y) == x.ranked = y.ranked /\ (x.ranked => Len(x.dims) = Len(y.dims))

DeclaredDims(t) == IF t.shape.ranked THEN t.shape.dims ELSE <<>>

\* C10: is_scalar raises TypeError for a non-tensor and, for every tensor, returns
\* whether every declared dimension size of its shape equals 1.
IsScalarTotalOnTensors ==
    (call.fn = "is_scalar" /\ Done) =>
        IF call.tensor.kind \in OtherKinds
        THEN ret.raised = "TypeError"
        ELSE /\ ret.raised = "None"
             /\ ret.value =
                   (\A i \in 1..Len(DeclaredDims(call.tensor)) :
                       /\ ~DeclaredDims(call.tensor)[i].value.isNone
                       /\ DeclaredDims(call.tensor)[i].value.n = 1)

(***************************************************************************)
(* Nested structures: tf.contrib.framework.nest.                           *)
(***************************************************************************)

\* A nested structure is a leaf holding a value, or a list of nested structures.
Leaf(v) == [tag |-> "leaf", val |-> v, kids |-> <<>>]

List(ks, blank) == [tag |-> "list", val |-> blank, kids |-> ks]

RECURSIVE SumSizes(_, _)
\* The number of nodes (leaves and lists) of a structure.
Size(t) == 1 + SumSizes(t.kids, 1)

SumSizes(ks, i) ==
    IF i > Len(ks) THEN 0 ELSE (1 + SumSizes(ks[i].kids, 1)) + SumSizes(ks, i + 1)

RECURSIVE StructuresUpTo(_, _, _), ListsUpTo(_, _, _)
\* Every structure of at most n nodes whose leaves hold values of leafVals.
StructuresUpTo(leafVals, blank, n) ==
    IF n = 0
    THEN {}
    ELSE {Leaf(v) : v \in leafVals}
         \cup {List(ks, blank) : ks \in ListsUpTo(leafVals, blank, n - 1)}

\* Every sequence of structures of at most n nodes in all.
ListsUpTo(leafVals, blank, n) ==
    {<<>>} \cup
    UNION {{<<t>> \o rest : rest \in ListsUpTo(leafVals, blank, n - Size(t))} :
              t \in StructuresUpTo(leafVals, blank, n)}

RECURSIVE same_structure(_, _)
\* nest.assert_same_structure(x, y) does not raise.
same_structure(x, y) ==
    IF x.tag = "leaf" \/ y.tag = "leaf"
    THEN x.tag = y.tag
    ELSE /\ Len(x.kids) = Len(y.kids)
         /\ \A i \in 1..Len(x.kids) : same_structure(x.kids[i], y.kids[i])

RECURSIVE flatten(_), flatten_all(_, _)
\* nest.flatten(x): the leaves, depth first, left to right.
flatten(x) == IF x.tag = "leaf" THEN <<x.val>> ELSE flatten_all(x.kids, 1)

flatten_all(ks, i) == IF i > Len(ks) THEN <<>> ELSE flatten(ks[i]) \o flatten_all(ks, i + 1)

RECURSIVE map_structure(_, _), map_all(_, _, _)
\* nest.map_structure(f, x): the same nesting, the function f applied to each leaf.
map_structure(f, x) ==
    IF x.tag = "leaf" THEN Leaf(f[x.val]) ELSE List(map_all(f, x.kids, 1), x.val)

map_all(f, ks, i) ==
    IF i > Len(ks) THEN <<>> ELSE <<map_structure(f, ks[i])>> \o map_all(f, ks, i + 1)

(***************************************************************************)
(* check_nested_equal                                                      *)
(***************************************************************************)

\* Most nodes of a structure handed to check_nested_equal.
MaxNodes == 3

LeafValues == {1, 2}

NestedStructures == StructuresUpTo(LeafValues, 0, MaxNodes)

\* Every predicate over pairs of leaf values.
EqFns == [LeafValues \X LeafValues -> BOOLEAN]

\* What a check_nested_equal call did: the pairs eq_fn was called on, in order,
\* and the pair the ValueError names.
Trace(calls, pair) == [eq_calls |-> calls, pair |-> pair]

RECURSIVE compare_loop(_, _, _, _, _)
\* for x, y in zip(flat_x, flat_y): if not eq_fn(x, y): raise ValueError
compare_loop(flat_x, flat_y, eq_fn, i, calls) ==
    IF i > Min(Len(flat_x), Len(flat_y))
    THEN Return(Trace(calls, <<>>))
    ELSE LET pair == <<flat_x[i], flat_y[i]>>
         IN  IF ~eq_fn[pair]
             THEN Raise("ValueError", "x != y", Trace(Append(calls, pair), pair))
             ELSE compare_loop(flat_x, flat_y, eq_fn, i + 1, Append(calls, pair))

RECURSIVE compare_all_loop(_, _, _, _, _, _)
\* The loop without its early exit.
compare_all_loop(flat_x, flat_y, eq_fn, i, calls, bad) ==
    IF i > Min(Len(flat_x), Len(flat_y))
    THEN IF bad = <<>>
         THEN Return(Trace(calls, <<>>))
         ELSE Raise("ValueError", "x != y", Trace(calls, bad))
    ELSE LET pair == <<flat_x[i], flat_y[i]>>
         IN  compare_all_loop(flat_x, flat_y, eq_fn, i + 1, Append(calls, pair),
                              IF eq_fn[pair] THEN bad ELSE pair)

\* A slip: the loop runs to the end and the error names the last unequal pair.
check_nested_equal_no_short_circuit(nested_x, nested_y, eq_fn) ==
    IF ~same_structure(nested_x, nested_y)
    THEN Raise("ValueError", "structure", Trace(<<>>, <<>>))
    ELSE compare_all_loop(flatten(nested_x), flatten(nested_y), eq_fn, 1, <<>>, <<>>)

\* A slip: the leaves are compared first and the structures after.
check_nested_equal_assert_last(nested_x, nested_y, eq_fn) ==
    LET r == compare_loop(flatten(nested_x), flatten(nested_y), eq_fn, 1, <<>>)
    IN  IF r.raised # "None"
        THEN r
        ELSE IF ~same_structure(nested_x, nested_y)
             THEN Raise("ValueError", "structure", Trace(r.value.eq_calls, <<>>))
             ELSE r

check_nested_equal(nested_x, nested_y, eq_fn) ==
    IF ~same_structure(nested_x, nested_y)
    THEN Raise("ValueError", "structure", Trace(<<>>, <<>>))
    ELSE compare_loop(flatten(nested_x), flatten(nested_y), eq_fn, 1, <<>>)

InitNested ==
    /\ call \in {[fn |-> "check_nested_equal", nested_x |-> x, nested_y |-> y, eq_fn |-> f] :
                    x \in NestedStructures, y \in NestedStructures, f \in EqFns}
    /\ ret = Pending
    /\ MetricsIdle

CallCheckNestedEqual ==
    /\ call.fn = "check_nested_equal"
    /\ ~Done
    /\ ret' = check_nested_equal(call.nested_x, call.nested_y, call.eq_fn)
    /\ UNCHANGED <<call, metricsVars>>

NextNested == CallCheckNestedEqual

SpecNested == InitNested /\ [][NextNested]_vars

\* The nesting of a structure: the structure with every leaf value erased.
RECURSIVE Nesting(_)
Nesting(x) ==
    IF x.tag = "leaf"
    THEN Leaf(0)
    ELSE List([i \in 1..Len(x.kids) |-> Nesting(x.kids[i])], 0)

NestedCallDone == call.fn = "check_nested_equal" /\ Done

\* C4: when the two structures differ in nesting, check_nested_equal raises the
\* structure error and eq_fn has not been called on any pair.
StructureMismatchBeforeAnyComparison ==
    (NestedCallDone /\ Nesting(call.nested_x) # Nesting(call.nested_y)) =>
        /\ ret.raised = "ValueError"
        /\ ret.msg = "structure"
        /\ ret.value.eq_calls = <<>>

\* Two lists of different lengths whose first leaves eq_fn already tells apart.
StructureMismatchWitness ==
    /\ NestedCallDone
    /\ call.nested_x.tag = "list"
    /\ call.nested_y.tag = "list"
    /\ Len(call.nested_x.kids) = 2
    /\ Len(call.nested_y.kids) = 1
    /\ call.nested_x.kids[1].tag = "leaf"
    /\ call.nested_y.kids[1].tag = "leaf"
    /\ ~call.eq_fn[<<call.nested_x.kids[1].val, call.nested_y.kids[1].val>>]
    /\ ret.msg = "structure"

\* The leaf pairs of two structures of the same nesting, in flatten order.
LeafPairs ==
    [i \in 1..Len(flatten(call.nested_x)) |->
        <<flatten(call.nested_x)[i], flatten(call.nested_y)[i]>>]

Unequal == {i \in 1..Len(LeafPairs) : ~call.eq_fn[LeafPairs[i]]}

FirstUnequal == CHOOSE i \in Unequal : \A j \in Unequal : i <= j

\* C5: on structures of the same nesting, check_nested_equal returns iff eq_fn holds
\* of every leaf pair; otherwise it raises the value error naming the first pair,
\* in flatten order, that eq_fn rejects, and eq_fn is called on no later pair.
FirstUnequalPairReported ==
    (NestedCallDone /\ Nesting(call.nested_x) = Nesting(call.nested_y)) =>
        IF Unequal = {}
        THEN /\ ret.raised = "None"
             /\ ret.value.eq_calls = LeafPairs
        ELSE /\ ret.raised = "ValueError"
             /\ ret.msg = "x != y"
             /\ ret.value.pair = LeafPairs[FirstUnequal]
             /\ ret.value.eq_calls = SubSeq(LeafPairs, 1, FirstUnequal)

\* Two leaf pairs, both rejected by eq_fn: the error names the first.
FirstUnequalWitness ==
    /\ NestedCallDone
    /\ Nesting(call.nested_x) = Nesting(call.nested_y)
    /\ Cardinality(Unequal) = 2
    /\ LeafPairs[1] # LeafPairs[2]
    /\ ret.raised = "ValueError"
    /\ ret.value.pair = LeafPairs[1]

(***************************************************************************)
(* to_var_dict                                                             *)
(***************************************************************************)

\* Most elements of the iterable handed to to_var_dict.
MaxVars == 3

\* py_typecheck.check_type(target, type_spec) passes: isinstance(target, type_spec).
\* When it does not pass, it raises TypeError.
check_type(target_type, type_spec) == target_type \in type_spec

\* A string is the sequence of its characters.
VariableNames ==
    { <<"a", ":", "0">>, <<"b", ":", "0">>, <<"a", ":", "1">>, <<"a">>,
      <<":", "0">>, <<>>, <<"a", ":", "0", ":", "0">> }

\* The elements: tf.Variable objects, a tf.Tensor that is no variable, an int.
VarDictElements ==
    {[type |-> "Variable", name |-> n] : n \in VariableNames}
    \cup {[type |-> "Tensor", name |-> <<"a", ":", "0">>], [type |-> "int", name |-> <<>>]}

\* s[-2:]
LastTwo(s) == SubSeq(s, IF Len(s) >= 2 THEN Len(s) - 1 ELSE 1, Len(s))

\* s[:-2]
DropLastTwo(s) == SubSeq(s, 1, Len(s) - 2)

Keys(tuples) == {tuples[i][1] : i \in 1..Len(tuples)}

RECURSIVE OrderedDictFrom(_, _, _)
\* collections.OrderedDict(tuples): a key seen again keeps its place and takes the
\* new value.
OrderedDictFrom(tuples, i, od) ==
    IF i > Len(tuples)
    THEN od
    ELSE LET k == tuples[i][1]
         IN  OrderedDictFrom(tuples, i + 1,
                 IF k \in Keys(od)
                 THEN [j \in 1..Len(od) |-> IF od[j][1] = k THEN tuples[i] ELSE od[j]]
                 ELSE Append(od, tuples[i]))

OrderedDict(tuples) == OrderedDictFrom(tuples, 1, <<>>)

RECURSIVE to_var_dict_loop_no_duplicate_check(_, _, _, _)
\* A slip: names are not checked for duplicates.
to_var_dict_loop_no_duplicate_check(variables, i, tuples, seen_names) ==
    IF i > Len(variables)
    THEN Return(OrderedDict(tuples))
    ELSE LET v == variables[i]
         IN  IF ~check_type(v.type, {"Variable"})
             THEN Raise("TypeError", "Expected tf.Variable", <<>>)
             ELSE IF LastTwo(v.name) # <<":", "0">>
                  THEN Raise("ValueError", "Variable has unexpected name", <<>>)
                  ELSE LET name == DropLastTwo(v.name)
                       IN  to_var_dict_loop_no_duplicate_check(
                               variables, i + 1, Append(tuples, <<name, v>>),
                               seen_names \cup {name})

to_var_dict_no_duplicate_check(variables) ==
    to_var_dict_loop_no_duplicate_check(variables, 1, <<>>, {})

RECURSIVE to_var_dict_loop(_, _, _, _)
\* for v in variables: ...
to_var_dict_loop(variables, i, tuples, seen_names) ==
    IF i > Len(variables)
    THEN Return(OrderedDict(tuples))
    ELSE LET v == variables[i]
         IN  IF ~check_type(v.type, {"Variable"})
             THEN Raise("TypeError", "Expected tf.Variable", <<>>)
             ELSE IF LastTwo(v.name) # <<":", "0">>
                  THEN Raise("ValueError", "Variable has unexpected name", <<>>)
                  ELSE LET name == DropLastTwo(v.name)
                       IN  IF name \in seen_names
                           THEN Raise("ValueError", "Found multiple variables with the name", <<>>)
                           ELSE to_var_dict_loop(variables, i + 1, Append(tuples, <<name, v>>),
                                                 seen_names \cup {name})

to_var_dict(variables) == to_var_dict_loop(variables, 1, <<>>, {})

InitVarDict ==
    /\ call \in {[fn |-> "to_var_dict", variables |-> vs] :
                    vs \in SeqsUpTo(VarDictElements, MaxVars)}
    /\ ret = Pending
    /\ MetricsIdle

CallToVarDict ==
    /\ call.fn = "to_var_dict"
    /\ ~Done
    /\ ret' = to_var_dict(call.variables)
    /\ UNCHANGED <<call, metricsVars>>

NextVarDict == CallToVarDict

SpecVarDict == InitVarDict /\ [][NextVarDict]_vars

VarDictCallDone == call.fn = "to_var_dict" /\ Done

IsVariable(v) == v.type = "Variable"

EndsWithColonZero(s) == Len(s) >= 2 /\ s[Len(s) - 1] = ":" /\ s[Len(s)] = "0"

Stripped(s) == [j \in 1..(Len(s) - 2) |-> s[j]]

WellNamed(v) == IsVariable(v) /\ EndsWithColonZero(v.name)

Repeats(vs, i) ==
    /\ WellNamed(vs[i])
    /\ \E j \in 1..(i - 1) : WellNamed(vs[j]) /\ Stripped(vs[j].name) = Stripped(vs[i].name)

Offending(vs) == {i \in 1..Len(vs) : ~WellNamed(vs[i]) \/ Repeats(vs, i)}

FirstOffending(vs) == CHOOSE i \in Offending(vs) : \A j \in Offending(vs) : i <= j

\* C6: to_var_dict succeeds iff every element is a variable named '<name>:0' and
\* the stripped names are pairwise distinct; the result then has one entry per
\* element, keyed by the stripped name, in the order of the input.  Otherwise it
\* raises the error of the first offending element: a type error for an element
\* that is no variable, a naming error for a name not ending in ':0', a
\* duplicate-name error for a stripped name an earlier element has.
VarDictKeepsOrderOrRaisesFirstError ==
    VarDictCallDone =>
        LET vs == call.variables
        IN  IF Offending(vs) = {}
            THEN /\ ret.raised = "None"
                 /\ ret.value = [i \in 1..Len(vs) |-> <<Stripped(vs[i].name), vs[i]>>]
            ELSE LET v == vs[FirstOffending(vs)]
                 IN  /\ ret.value = <<>>
                     /\ IF ~IsVariable(v)
                        THEN ret.raised = "TypeError"
                        ELSE IF ~EndsWithColonZero(v.name)
                             THEN /\ ret.raised = "ValueError"
                                  /\ ret.msg = "Variable has unexpected name"
                             ELSE /\ ret.raised = "ValueError"
                                  /\ ret.msg = "Found multiple variables with the name"

\* Variables 'b:0' then 'a:0': the mapping lists 'b' before 'a'.
VarDictOrderWitness ==
    /\ VarDictCallDone
    /\ Len(call.variables) = 2
    /\ ret.raised = "None"
    /\ ret.value[1][1] = <<"b">>
    /\ ret.value[2][1] = <<"a">>

(***************************************************************************)
(* to_odict                                                                *)
(***************************************************************************)

\* Most entries of the mapping handed to to_odict.
MaxItems == 3

\* A key is a str, the sequence of its code points, or an int.
StrKey(cs) == [type |-> "str", v |-> cs]

IntKey(n) == [type |-> "int", v |-> <<n>>]

\* 'a', 'b', 'ab', '', 'B' and the int 7.
OdictKeys ==
    {StrKey(<<97>>), StrKey(<<98>>), StrKey(<<97, 98>>), StrKey(<<>>), StrKey(<<66>>), IntKey(7)}

OdictValues == {1, 2}

\* The entries of a mapping in its iteration order: no key twice.
ItemLists ==
    {its \in SeqsUpTo(OdictKeys \X OdictValues, MaxItems) :
        \A i \in 1..Len(its) : \A j \in 1..Len(its) : its[i][1] = its[j][1] => i = j}

\* An object: its type, its identity, its entries.
Object(t, id, its) == [type |-> t, id |-> id, items |-> its]

OdictInputs ==
    {Object(t, 1, its) : t \in {"dict", "OrderedDict"}, its \in ItemLists}
    \cup {Object("list", 1, <<>>)}

RECURSIVE StrLt(_, _)
\* a < b on str: the first differing code point decides; a proper prefix is less.
StrLt(a, b) ==
    IF a = <<>>
    THEN b # <<>>
    ELSE IF b = <<>>
         THEN FALSE
         ELSE IF a[1] # b[1] THEN a[1] < b[1] ELSE StrLt(Tail(a), Tail(b))

\* a < b on (key, value) tuples: the values are compared when the keys are equal.
TupleLt(a, b) == IF a[1] # b[1] THEN StrLt(a[1].v, b[1].v) ELSE a[2] < b[2]

ComparesValues(a, b) == a[1] = b[1]

RECURSIVE InsertSorted(_, _, _)
\* x put behind every entry of the sorted list that is not greater than x.
InsertSorted(x, srt, i) ==
    IF i > Len(srt.out)
    THEN [out |-> Append(srt.out, x), values_compared |-> srt.values_compared]
    ELSE IF TupleLt(x, srt.out[i])
         THEN [out |-> SubSeq(srt.out, 1, i - 1) \o <<x>> \o SubSeq(srt.out, i, Len(srt.out)),
               values_compared |-> srt.values_compared \/ ComparesValues(x, srt.out[i])]
         ELSE InsertSorted(x, [srt EXCEPT !.values_compared = @ \/ ComparesValues(x, srt.out[i])],
                           i + 1)

RECURSIVE SortFrom(_, _, _)
SortFrom(items, i, srt) ==
    IF i > Len(items) THEN srt ELSE SortFrom(items, i + 1, InsertSorted(items[i], srt, 1))

\* sorted(items): the entries in ascending order, and whether two values were compared.
sorted(items) == SortFrom(items, 1, [out |-> <<>>, values_compared |-> FALSE])

\* What to_odict returns: the object, and whether sorting compared two values.
Result(obj, cmp) == [obj |-> obj, values_compared |-> cmp]

NoObject == Object("None", 0, <<>>)

RECURSIVE collect_items(_, _, _)
\* for k, v in six.iteritems(d): check_type(k, six.string_types); items.append((k, v))
collect_items(d_items, i, items) ==
    IF i > Len(d_items)
    THEN Return(items)
    ELSE IF ~check_type(d_items[i][1].type, {"str"})
         THEN Raise("TypeError", "Expected str", <<>>)
         ELSE collect_items(d_items, i + 1, Append(items, d_items[i]))

\* A slip: the items are not sorted.
to_odict_unsorted(d) ==
    IF d.type = "OrderedDict"
    THEN Return(Result(d, FALSE))
    ELSE IF ~check_type(d.type, {"dict"})
         THEN Raise("TypeError", "Expected dict", Result(NoObject, FALSE))
         ELSE LET items == collect_items(d.items, 1, <<>>)
              IN  IF items.raised # "None"
                  THEN Raise(items.raised, items.msg, Result(NoObject, FALSE))
                  ELSE Return(Result(Object("OrderedDict", d.id + 1, OrderedDict(items.value)),
                                     FALSE))

\* A slip: the keys are not checked.
to_odict_no_key_check(d) ==
    IF d.type = "OrderedDict"
    THEN Return(Result(d, FALSE))
    ELSE IF ~check_type(d.type, {"dict"})
         THEN Raise("TypeError", "Expected dict", Result(NoObject, FALSE))
         ELSE Return(Result(Object("OrderedDict", d.id + 1, OrderedDict(d.items)), FALSE))

\* The OrderedDict that to_odict builds is a new object.
to_odict(d) ==
    IF d.type = "OrderedDict"
    THEN Return(Result(d, FALSE))
    ELSE IF ~check_type(d.type, {"dict"})
         THEN Raise("TypeError", "Expected dict", Result(NoObject, FALSE))
         ELSE LET items == collect_items(d.items, 1, <<>>)
              IN  IF items.raised # "None"
                  THEN Raise(items.raised, items.msg, Result(NoObject, FALSE))
                  ELSE LET srt == sorted(items.value)
                       IN  Return(Result(Object("OrderedDict", d.id + 1, OrderedDict(srt.out)),
                                         srt.values_compared))

InitOdict ==
    /\ call \in {[fn |-> "to_odict", d |-> d, again |-> FALSE] : d \in OdictInputs}
    /\ ret = Pending
    /\ MetricsIdle

CallToOdict ==
    /\ call.fn = "to_odict"
    /\ ~Done
    /\ ret' = to_odict(call.d)
    /\ UNCHANGED <<call, metricsVars>>

\* to_odict applied to what to_odict returned.
CallToOdictAgain ==
    /\ call.fn = "to_odict"
    /\ Done
    /\ ret.raised = "None"
    /\ ~call.again
    /\ call' = [fn |-> "to_odict", d |-> ret.value.obj, again |-> TRUE]
    /\ ret' = to_odict(ret.value.obj)
    /\ UNCHANGED metricsVars

NextOdict == CallToOdict \/ CallToOdictAgain

SpecOdict == InitOdict /\ [][NextOdict]_vars

OdictCallDone == call.fn = "to_odict" /\ Done

IsMapping(d) == d.type \in {"dict", "OrderedDict"}

HasNonStringKey(items) == \E i \in 1..Len(items) : items[i][1].type # "str"

LexLess(a, b) ==
    \E k \in 1..(Len(b)) :
        /\ k <= Len(a) + 1
        /\ \A j \in 1..(k - 1) : a[j] = b[j]
        /\ (k = Len(a) + 1 \/ a[k] < b[k])

Entries(items) == {items[i] : i \in 1..Len(items)}

MaxZeroNodes == 4

\* A float tensor is the sequence of its elements, its shape is its length; an
\* element is a finite value, NaN or an infinity.
Tensors ==
    { <<>>, <<"1.0">>, <<"nan">>, <<"inf">>,
      <<"1.0", "1.0">>, <<"1.0", "inf">>, <<"nan", "1.0">> }

TensorStructures == StructuresUpTo(Tensors, <<>>, MaxZeroNodes)

\* tf.is_finite, elementwise.
is_finite(t) == [i \in 1..Len(t) |-> t[i] \notin {"nan", "inf"}]

\* tf.reduce_all: true of the empty tensor.
reduce_all(bs) == \A i \in 1..Len(bs) : bs[i]

\* tf.zeros_like, as a function of the tensor.
zeros_like == [t \in Tensors |-> [i \in 1..Len(t) |-> "0.0"]]

\* Zeros for a tensor that holds a non-finite element, the tensor itself otherwise.
zeros_like_if_non_finite ==
    [t \in Tensors |-> IF reduce_all(is_finite(t)) THEN t ELSE [i \in 1..Len(t) |-> "0.0"]]

RECURSIVE reduce_logical_and(_, _, _)
\* functools.reduce(tf.logical_and, flat_bools)
reduce_logical_and(flat_bools, i, acc) ==
    IF i > Len(flat_bools) THEN acc ELSE reduce_logical_and(flat_bools, i + 1, acc /\ flat_bools[i])

\* tf.cond(pred, true_fn, false_fn): both branches are built, pred selects.
cond(pred, true_branch, false_branch) == IF pred THEN true_branch ELSE false_branch

\* A slip: only the leaves that hold a non-finite element are zeroed.
zero_only_non_finite_leaves(structure) ==
    LET flat == flatten(structure)
    IN  IF flat = <<>>
        THEN Return([structure |-> structure, flag |-> 0])
        ELSE LET flat_bools == [i \in 1..Len(flat) |-> reduce_all(is_finite(flat[i]))]
                 all_finite == reduce_logical_and(flat_bools, 2, flat_bools[1])
             IN  Return(cond(all_finite,
                             [structure |-> structure, flag |-> 0],
                             [structure |-> map_structure(zeros_like_if_non_finite, structure),
                              flag |-> 1]))

zero_all_if_any_non_finite(structure) ==
    LET flat == flatten(structure)
    IN  IF flat = <<>>
        THEN Return([structure |-> structure, flag |-> 0])
        ELSE LET flat_bools == [i \in 1..Len(flat) |-> reduce_all(is_finite(flat[i]))]
                 all_finite == reduce_logical_and(flat_bools, 2, flat_bools[1])
             IN  Return(cond(all_finite,
                             [structure |-> structure, flag |-> 0],
                             [structure |-> map_structure(zeros_like, structure), flag |-> 1]))

InitZero ==
    /\ call \in {[fn |-> "zero_all_if_any_non_finite", structure |-> st] : st \in TensorStructures}
    /\ ret = Pending
    /\ MetricsIdle

CallZeroAllIfAnyNonFinite ==
    /\ call.fn = "zero_all_if_any_non_finite"
    /\ ~Done
    /\ ret' = zero_all_if_any_non_finite(call.structure)
    /\ UNCHANGED <<call, metricsVars>>

NextZero == CallZeroAllIfAnyNonFinite

SpecZero == InitZero /\ [][NextZero]_vars

ZeroCallDone == call.fn = "zero_all_if_any_non_finite" /\ Done

\* Every element of every leaf is finite (so also: there is no leaf).
AllElementsFinite(st) ==
    \A i \in 1..Len(flatten(st)) : \A j \in 1..Len(flatten(st)[i]) :
        flatten(st)[i][j] \notin {"nan", "inf"}

MaxCalls == 2

MaxUpdates == 2

\* values.dtype is tf.int8: sums are taken in 8-bit two's complement.
DTypeBits == 8

\* The scope name '<prefix>' (idx = 0) or '<prefix>_<idx>'.
Scope(prefix, idx) == [prefix |-> prefix, idx |-> idx]

\* The name argument: None or 'a'.
NoName == [isNone |-> TRUE, s |-> Scope("", 0)]

Name(sc) == [isNone |-> FALSE, s |-> sc]

NameArgs == {NoName, Name(Scope("a", 0))}

\* The reuse setting of the variable scope the caller is in: unset by default.
ReuseSettings == {"False", "True", "AUTO_REUSE"}

AllScopes == {Scope("a", 0)} \cup {Scope("metrics_sum", i) : i \in 0..(MaxCalls + 1)}

\* The batches fed to `values`: rank-1 int8 tensors.
Batches == {<<>>, <<1, 2>>, <<100, 100>>}

\* A value of the dtype: x reduced modulo 2^DTypeBits into the signed range.
Wrap(x) == ((x + 2 ^ (DTypeBits - 1)) % (2 ^ DTypeBits)) - 2 ^ (DTypeBits - 1)

RECURSIVE reduce_sum_from(_, _, _)
reduce_sum_from(values, i, acc) ==
    IF i > Len(values) THEN acc ELSE reduce_sum_from(values, i + 1, Wrap(acc + values[i]))

\* tf.reduce_sum(values), in the dtype of values.
reduce_sum(values) == reduce_sum_from(values, 1, 0)

\* A slip: the sum of the batch replaces the accumulator.
assign(ref, value) == value

\* tf.assign_add(ref, value): the new value of ref.
assign_add(ref, value) == Wrap(ref + value)

RECURSIVE first_free_index(_, _, _)
first_free_index(prefix, counts, idx) ==
    IF counts[Scope(prefix, idx)] > 0 THEN first_free_index(prefix, counts, idx + 1) ELSE idx

\* The scope that tf.variable_scope(name, default_name) opens: name when it is
\* given, else default_name made unique among the scopes opened so far.
variable_scope(name, default_name, counts) ==
    IF ~name.isNone
    THEN name.s
    ELSE IF counts[Scope(default_name, 0)] = 0
         THEN Scope(default_name, 0)
         ELSE Scope(default_name, first_free_index(default_name, counts, 1))

\* tf.get_variable in a scope whose reuse setting is `reuse`, the variable store
\* holding `store`: the variable is created, found, or the call raises ValueError.
\* A slip: a variable is created whether or not one of that name exists.
get_variable_always_creates(scope, reuse, store) == "create"

get_variable(scope, reuse, store) ==
    IF scope \in store
    THEN IF reuse = "False" THEN "already exists" ELSE "found"
    ELSE IF reuse = "True" THEN "does not exist" ELSE "create"

InitMetrics ==
    /\ call = [fn |-> "none"]
    /\ ret = Pending
    /\ var_store = {}
    /\ local_variables = <<>>
    /\ scope_count = [sc \in AllScopes |-> 0]
    /\ session = [sc \in AllScopes |-> [initialized |-> FALSE, value |-> 0]]
    /\ handles = <<>>
    /\ applied = [sc \in AllScopes |-> <<>>]

RECURSIVE SumCounts(_, _)
SumCounts(counts, scopes) ==
    IF scopes = {}
    THEN 0
    ELSE LET sc == CHOOSE x \in scopes : TRUE
         IN  counts[sc] + SumCounts(counts, scopes \ {sc})

\* Every call opens one variable scope.
NumCalls == SumCounts(scope_count, AllScopes)

\* What a call was given and what it returned: the (sum_var, update_op) pair on
\* the variable of `scope`, unless it raised.
Handle(name, reuse, scope, raised) ==
    [name |-> name, reuse |-> reuse, sum_var |-> scope, raised |-> raised]

\* metrics_sum(values, name), called in a variable scope whose reuse is `reuse`.
MetricsSum ==
    \E name \in NameArgs, reuse \in ReuseSettings :
        /\ NumCalls < MaxCalls
        /\ LET scope == variable_scope(name, "metrics_sum", scope_count)
               got == get_variable(scope, reuse, var_store)
               raised == got \in {"already exists", "does not exist"}
           IN  /\ scope_count' = [scope_count EXCEPT ![scope] = @ + 1]
               /\ call' = [fn |-> "metrics_sum", name |-> name, reuse |-> reuse]
               /\ handles' = Append(handles, Handle(name, reuse, scope, raised))
               /\ ret' = IF raised
                         THEN Raise("ValueError", got, scope)
                         ELSE Return(scope)
               /\ IF got = "create"
                  THEN /\ var_store' = var_store \cup {scope}
                       /\ local_variables' = Append(local_variables, scope)
                  ELSE UNCHANGED <<var_store, local_variables>>
        /\ UNCHANGED <<session, applied>>

InLocalVariables(sc) == \E i \in 1..Len(local_variables) : local_variables[i] = sc

\* session.run(tf.local_variables_initializer()): zeros_initializer.
RunInitializer ==
    /\ local_variables # <<>>
    /\ session' = [sc \in AllScopes |->
                      IF InLocalVariables(sc)
                      THEN [initialized |-> TRUE, value |-> 0]
                      ELSE session[sc]]
    /\ applied' = [sc \in AllScopes |-> IF InLocalVariables(sc) THEN <<>> ELSE applied[sc]]
    /\ call' = [fn |-> "initializer"]
    /\ ret' = Return(0)
    /\ UNCHANGED <<var_store, local_variables, scope_count, handles>>

RECURSIVE SumLens(_, _)
SumLens(history, scopes) ==
    IF scopes = {}
    THEN 0
    ELSE LET sc == CHOOSE x \in scopes : TRUE
         IN  Len(history[sc]) + SumLens(history, scopes \ {sc})

\* The update op runs since the last initialisation.
UpdatesRun == SumLens(applied, AllScopes)

\* session.run(update_op, {values: batch}) for the update op of the h-th call.
RunUpdateOp ==
    \E h \in 1..Len(handles), batch \in Batches :
        /\ ~handles[h].raised
        /\ UpdatesRun < MaxUpdates
        /\ LET v == handles[h].sum_var
           IN  /\ call' = [fn |-> "update_op", handle |-> h]
               /\ IF ~session[v].initialized
                  THEN /\ ret' = Raise("FailedPreconditionError", "uninitialized", 0)
                       /\ UNCHANGED <<session, applied>>
                  ELSE /\ session' = [session EXCEPT
                                         ![v].value = assign_add(@, reduce_sum(batch))]
                       /\ applied' = [applied EXCEPT ![v] = Append(@, batch)]
                       /\ ret' = Return(session'[v].value)
        /\ UNCHANGED <<var_store, local_variables, scope_count, handles>>

\* session.run(sum_var) for the sum variable of the h-th call.
ReadSum ==
    \E h \in 1..Len(handles) :
        /\ ~handles[h].raised
        /\ call' = [fn |-> "read", handle |-> h]
        /\ ret' = IF session[handles[h].sum_var].initialized
                  THEN Return(session[handles[h].sum_var].value)
                  ELSE Raise("FailedPreconditionError", "uninitialized", 0)
        /\ UNCHANGED metricsVars

\* The graph and the session of a program that calls metrics_sum.
MetricsReady == DOMAIN session = AllScopes

NextMetrics == MetricsSum \/ RunInitializer \/ RunUpdateOp \/ ReadSum

SpecMetrics == InitMetrics /\ [][NextMetrics]_vars

\* The 'sum' variable of the scope of call j existed when call j was made.
ExistedBefore(j) ==
    \E i \in 1..(j - 1) : ~handles[i].raised /\ handles[i].sum_var = handles[j].sum_var

NoDuplicateSumVariable ==
    /\ \A i \in 1..Len(local_variables) : \A j \in 1..Len(local_variables) :
          local_variables[i] = local_variables[j] => i = j
    /\ var_store = {local_variables[i] : i \in 1..Len(local_variables)}

\* C1 as stated: two calls with the same explicit scope name, made where no
\* enclosing scope sets reuse, both succeed and return the same variable, and no
\* scope name has two 'sum' variables.
SameNameCallsShareVariable ==
    /\ \A i \in 1..Len(handles) : \A j \in 1..Len(handles) :
          (/\ i < j
           /\ ~handles[i].name.isNone
           /\ handles[i].name = handles[j].name
           /\ handles[i].reuse = "False"
           /\ handles[j].reuse = "False") =>
              /\ ~handles[i].raised
              /\ ~handles[j].raised
              /\ handles[i].sum_var = handles[j].sum_var
    /\ NoDuplicateSumVariable

\* C1 as amended: no scope name ever has two 'sum' variables; a call with an
\* explicit scope name whose 'sum' variable exists returns that variable only
\* when the enclosing variable scope has reuse enabled, and with reuse unset it
\* raises ValueError and creates nothing.
SameNameCallReusesOnlyUnderReuse ==
    /\ \A j \in 1..Len(handles) :
          ~handles[j].name.isNone =>
              /\ handles[j].sum_var = handles[j].name.s
              /\ handles[j].raised =
                    IF ExistedBefore(j)
                    THEN handles[j].reuse = "False"
                    ELSE handles[j].reuse = "True"
    /\ (call.fn = "metrics_sum" /\ ~call.name.isNone) =>
          ret.raised = (IF handles[Len(handles)].raised THEN "ValueError" ELSE "None")
    /\ NoDuplicateSumVariable
    /\ \A i \in 1..Len(local_variables) :
          \E j \in 1..Len(handles) : ~handles[j].raised /\ handles[j].sum_var = local_variables[i]

\* Two calls named 'a' with reuse unset: the second has raised, one variable exists.
SecondCallRaisesWitness ==
    /\ Len(handles) = 2
    /\ handles[1].name = Name(Scope("a", 0))
    /\ handles[2].name = Name(Scope("a", 0))
    /\ handles[1].reuse = "False"
    /\ handles[2].reuse = "False"
    /\ ~handles[1].raised
    /\ handles[2].raised
    /\ local_variables = <<Scope("a", 0)>>

RECURSIVE SumOf(_, _)
\* The sum of the elements of a batch from the i-th on, as an integer.
SumOf(batch, i) == IF i > Len(batch) THEN 0 ELSE batch[i] + SumOf(batch, i + 1)

RECURSIVE SumOfSums(_, _)
SumOfSums(batches, i) ==
    IF i > Len(batches) THEN 0 ELSE SumOf(batches[i], 1) + SumOfSums(batches, i + 1)

\* x is a value of the dtype.
InDTypeRange(x) == -(2 ^ (DTypeBits - 1)) <= x /\ x < 2 ^ (DTypeBits - 1)

\* C2: an initialised accumulator holds sum(v1) + ... + sum(vn) of the batches its
\* update ops have added since initialisation, the sum being that of the dtype of
\* values (the integer sum reduced modulo 2^bits into the signed range, so the
\* integer sum itself whenever that is a value of the dtype): zero after
\* initialisation, each update adds the sum of its batch, a read changes nothing.
AccumulatorIsSumOfBatches ==
    \A sc \in AllScopes :
        (MetricsReady /\ session[sc].initialized) =>
            /\ session[sc].value = Wrap(SumOfSums(applied[sc], 1))
            /\ InDTypeRange(SumOfSums(applied[sc], 1)) =>
                  session[sc].value = SumOfSums(applied[sc], 1)
            /\ applied[sc] = <<>> => session[sc].value = 0

\* An accumulator that was read after the batches [1, 2] and [1, 2] were added.
AccumulatorWitness ==
    /\ MetricsReady
    /\ call.fn = "read"
    /\ ret.raised = "None"
    /\ applied[handles[call.handle].sum_var] = << <<1, 2>>, <<1, 2>> >>
    /\ ret.value = 6

====
